---- MODULE Spec2Model ----
(***************************************************************************)
(* A* pathfinder with 3D z-level navigation and a FIFO-bounded path cache  *)
(* (ai/pathfinding_simple.py) over the tile world of                       *)
(* world/world_state_simple.py.                                            *)
(*                                                                         *)
(* The costs of a search are Python floats.  Every one of them is 0 or at  *)
(* least 1.0, so it is an integer number of units of 2^-52; a float is the *)
(* record [hi, lo] of that integer, hi * 2^28 + lo.  FloatAdd rounds as    *)
(* IEEE-754 double addition does (to nearest, ties to even), so that two   *)
(* sums of the same terms in a different order differ where they differ in *)
(* the code.  The open set is the heapq array itself, with heapq's sift    *)
(* procedures, so lowering a node's f_cost in place has the effect it has  *)
(* in the code.  The properties measure a path in exact decimal arithmetic *)
(* (micro-units, 1.0 = 1000000).                                           *)
(***************************************************************************)
EXTENDS Integers, Sequences, FiniteSets, TLC

VARIABLES
    world_state,     \* AStarPathfinder.world_state: [size, z_levels, tiles]
    untouched,       \* no tile was set since world_state was bound
    max_iterations,  \* AStarPathfinder.max_iterations
    path_cache,      \* AStarPathfinder.path_cache, in insertion order
    cache_max_size,  \* AStarPathfinder.cache_max_size
    pc,              \* "idle" | "loop" (inside find_path's while) | "done"
    start,           \* find_path argument
    goal,            \* find_path argument
    open_set,        \* find_path local: the heapq array of node positions
    closed_set,      \* find_path local
    node_map,        \* find_path local: position -> [g_cost, parent]
    iterations,      \* find_path local
    result,          \* value returned by the last find_path call
    queries,         \* terrain queries made by the last find_path call
    hit,             \* the last call was answered at line 36 (cache)
    repeat,          \* the last call repeated, at once, a call that found a path
    retry,           \* the last call had the arguments of a call that found none
    prev_result,     \* result of the call before the last one
    cache_before,    \* path_cache when the last call began
    held,            \* the list object the last call handed to its caller
    after_mutation,  \* the last call repeated a call whose list the caller changed
    dwarf_position,  \* Dwarf.position of the dwarf a DwarfAI controls
    current_path,    \* DwarfAI.current_path
    path_index,      \* DwarfAI.path_index
    refused,         \* the last move request got no path
    refused_at       \* dwarf_position when that request was made

vars == <<world_state, untouched, max_iterations, path_cache, cache_max_size, pc, start,
          goal, open_set, closed_set, node_map, iterations, result, queries,
          hit, repeat, retry, prev_result, cache_before, held,
          after_mutation, dwarf_position, current_path, path_index, refused,
          refused_at>>

search_vars == <<open_set, closed_set, node_map, iterations>>

dwarf_vars == <<dwarf_position, current_path, path_index, refused, refused_at>>

----------------------------------------------------------------------------
(* Bounds of the model *)

Size == 3            \* world_state.size of the small world
ZLevels == 2         \* world_state.z_levels of the small world
TerrainSize == 4      \* size of the world of the non-uniform terrain
CacheMax == 2        \* cache_max_size of the modelled pathfinder
MidIterations == 3   \* an iteration cap that cuts some searches off
GridSize == 5        \* size of the flat grid of the optimality scenarios
BudgetSize == 2      \* size of the world of the budget scenarios

(* Program constants *)

TILE_EMPTY == 0
TILE_STONE == 1
TILE_SOIL == 2
FULL_WATER == 7
DEFAULT_MAX_ITERATIONS == 1000

(* Floats *)

Limb == 16384 * 16384     \* 2^28
OneHi == 4096 * 4096       \* 1.0 is [hi |-> 2^24, lo |-> 0]

Float(hi, lo) == [hi |-> hi, lo |-> lo]

Zero == Float(0, 0)

Inf == Float(2147483647, 0)

FloatLt(x, y) == x.hi < y.hi \/ (x.hi = y.hi /\ x.lo < y.lo)

RECURSIVE Ulp(_)
Ulp(hi) ==
    \* the spacing of the doubles around hi * 2^-24, in units of 2^-52
    IF hi < 2 * OneHi THEN 1 ELSE 2 * Ulp(hi \div 2)

FloatAdd(x, y) ==
    LET sum_lo == x.lo + y.lo
        hi == x.hi + y.hi + (sum_lo \div Limb)
        lo == sum_lo % Limb
        u == Ulp(hi)
        q == lo \div u
        r == lo % u
        up == 2 * r > u \/ (2 * r = u /\ q % 2 = 1)
        rounded == (IF up THEN q + 1 ELSE q) * u
    IN  IF x = Inf \/ y = Inf THEN Inf
        ELSE IF rounded = Limb THEN Float(hi + 1, 0) ELSE Float(hi, rounded)

FloatTwice(x) ==
    IF x = Inf THEN Inf
    ELSE Float(2 * x.hi + ((2 * x.lo) \div Limb), (2 * x.lo) % Limb)

----------------------------------------------------------------------------
(* world/world_state_simple.py *)

Tile(material, water_level) == [material |-> material, water_level |-> water_level]

DefaultTile == Tile(TILE_EMPTY, 0)

WallTile == Tile(TILE_STONE, FULL_WATER)

Cells(size, z_levels) ==
    {<<x, y, z>> : x \in 0..(size - 1), y \in 0..(size - 1), z \in 0..(z_levels - 1)}

WorldState(size, z_levels) ==
    [size |-> size, z_levels |-> z_levels,
     tiles |-> [c \in Cells(size, z_levels) |-> DefaultTile]]

is_valid_coordinate(w, pos) ==
    /\ 0 <= pos[1] /\ pos[1] < w.size
    /\ 0 <= pos[2] /\ pos[2] < w.size
    /\ 0 <= pos[3] /\ pos[3] < w.z_levels

get_tile(w, pos) ==
    IF ~is_valid_coordinate(w, pos) THEN DefaultTile ELSE w.tiles[pos]

set_tile(w, pos, tile) ==
    IF is_valid_coordinate(w, pos)
    THEN [w EXCEPT !.tiles[pos] = tile]
    ELSE w

is_passable(tile) ==
    tile.material = TILE_EMPTY \/ tile.water_level < FULL_WATER

(* Tile.get_movement_cost, lines 40-46, as the double it returns: entry
   8 * soil + water_level + 1 is 1.0 + water_level * 0.5 (+ 0.2 on soil) *)
TileCostTable == <<
    <<16777216, 0>>, <<25165824, 0>>, <<33554432, 0>>, <<41943040, 0>>,
    <<50331648, 0>>, <<58720256, 0>>, <<67108864, 0>>, <<75497472, 0>>,
    <<20132659, 53687091>>, <<28521267, 53687091>>, <<36909875, 53687092>>, <<45298483, 53687092>>,
    <<53687091, 53687092>>, <<62075699, 53687092>>, <<70464307, 53687092>>, <<78852915, 53687092>> >>

(* The same cost after "cost *= 1.414" (pathfinding_simple.py line 169) *)
DiagonalCostTable == <<
    <<23722983, 113816633>>, <<35584475, 36507222>>, <<47445966, 227633266>>, <<59307458, 150323854>>,
    <<71168950, 73014444>>, <<83030441, 264140488>>, <<94891933, 186831076>>, <<106753425, 109521664>>,
    <<28467580, 29205777>>, <<40329071, 220331822>>, <<52190563, 143022412>>, <<64052055, 65713000>>,
    <<75913546, 256839044>>, <<87775038, 179529632>>, <<99636530, 102220220>>, <<111498022, 24910808>> >>

TileCostIndex(tile) ==
    (IF tile.material = TILE_SOIL THEN 8 ELSE 0) + tile.water_level + 1

get_movement_cost(tile) ==
    IF ~is_passable(tile) THEN Inf
    ELSE LET entry == TileCostTable[TileCostIndex(tile)]
         IN  Float(entry[1], entry[2])

----------------------------------------------------------------------------
(* math.sqrt(n) for n = 0, 1, 2, ...: the double it returns, entry n + 1 *)

SqrtTable == <<
    <<0, 0>>, <<16777216, 0>>, <<23726566, 109001677>>, <<29058990, 140004522>>,
    <<33554432, 0>>, <<37514995, 120580432>>, <<41095618, 135414364>>, <<44388341, 61206996>>,
    <<47453132, 218003354>>, <<50331648, 0>>, <<53054215, 95729318>>, <<55643730, 133881448>>,
    <<58117981, 11573588>>, <<60491112, 146977766>>, <<62774594, 47218322>>, <<64977878, 43949492>>,
    <<67108864, 0>>, <<69174233, 180335644>>, <<71179699, 58569572>>, <<73130189, 26294244>>,
    <<75029990, 241160864>>, <<76882862, 72645140>>, <<78692118, 89217692>>, <<80460701, 98308184>>,
    <<82191237, 2393272>>, <<83886080, 0>>, <<85547351, 206094296>>, <<87176971, 151578112>>,
    <<88776682, 122413992>>, <<90348073, 44263372>>, <<91892596, 148543036>>, <<93411585, 94570252>>,
    <<94906265, 167571252>>, <<96377768, 93012928>>, <<97827139, 114200200>>, <<99255348, 105842868>>,
    <<100663296, 0>>, <<102051820, 227504356>>, <<103421705, 64756068>>, <<104773680, 90918440>>,
    <<106108430, 191458636>>, <<107426598, 109050880>>, <<108728786, 144198032>>, <<110015562, 141985152>>,
    <<111287460, 267762896>>, <<112544986, 93305840>>, <<113788615, 29573260>>, <<115018798, 14045080>>,
    <<116235962, 23147176>>, <<117440512, 0>>, <<118632832, 8137472>>, <<119813287, 78974776>>,
    <<120982225, 25520076>>, <<122139976, 31190948>>, <<123286855, 137807640>>, <<124423163, 246122336>>,
    <<125549188, 94436644>>, <<126665203, 22756720>>, <<127771470, 108466624>>, <<128868241, 91126636>>,
    <<129955756, 87898984>>, <<131034245, 221893024>>, <<132103930, 238369864>>, <<133165023, 183620988>>,
    <<134217728, 0>>, <<135262239, 185456256>>, <<136298747, 28688480>>, <<137327431, 131507288>>,
    <<138348467, 92235832>>, <<139362022, 209092680>>, <<140368259, 224755416>>, <<141367334, 212850736>>,
    <<142359398, 117139144>>, <<143344596, 91268376>>, <<144323069, 28838512>>, <<145294952, 163151704>>,
    <<146260378, 52588488>>, <<147219472, 246849304>>, <<148172359, 191858720>>, <<149119157, 158188416>>,
    <<150059981, 213886272>>, <<150994944, 0>>, <<151924152, 114278688>>, <<152847712, 2941248>>,
    <<153765724, 145290280>>, <<154678288, 209810640>>, <<155585500, 161202592>>, <<156487453, 23500592>>,
    <<157384236, 178435384>>, <<158275939, 51657224>>, <<159162646, 18752496>>, <<160044440, 88690008>>,
    <<160921402, 196616368>>, <<161793611, 227027456>>, <<162661144, 35821616>>, <<163524074, 8170760>>,
    <<164382474, 4786544>>, <<165236414, 186299152>>, <<166085964, 226140824>>, <<166931191, 133208888>>,
    <<167772160, 0>>, <<168608934, 18435968>>, <<169441575, 226550736>>, <<170270145, 254511768>>,
    <<171094703, 143753136>>, <<171915306, 91769928>>, <<172732010, 196346944>>, <<173544871, 199251008>>,
    <<174353943, 34720768>>, <<175159277, 109038008>>, <<175960925, 237462936>>, <<176758938, 191346432>>,
    <<177553364, 244827984>>, <<178344252, 110526896>>, <<179131648, 22342352>>, <<179915597, 207283904>>,
    <<180696146, 88526744>>, <<181473337, 172497848>>, <<182247214, 177557200>>, <<183017819, 115174952>>,
    <<183785193, 28650616>>, <<184549376, 0>>, <<185310407, 156586560>>, <<186068326, 140637680>>,
    <<186823170, 189140504>>, <<187574977, 66031248>>, <<188323782, 141654968>>, <<189069622, 56102528>>,
    <<189812531, 66707048>>, <<190552543, 247870016>>, <<191289693, 227579736>>, <<192024013, 265935784>>,
    <<192755536, 186025856>>, <<193484293, 183693712>>, <<194210316, 26543600>>, <<194933634, 131848472>>,
    <<195654278, 228400400>>, <<196372278, 165711616>>, <<197087662, 186216984>>, <<197800459, 123612000>>,
    <<198510696, 211685736>>, <<199218402, 13992448>>, <<199923602, 37769032>>, <<200626323, 126522400>>,
    <<201326592, 0>>, <<202024433, 62499120>>, <<202719872, 63599456>>, <<203412933, 174725288>> >>

----------------------------------------------------------------------------
(* ai/pathfinding_simple.py: helpers *)

None == <<>>

NoPath == [found |-> FALSE, path |-> <<>>]

Found(path) == [found |-> TRUE, path |-> path]

Abs(n) == IF n < 0 THEN -n ELSE n

(* Variant: every coordinate counts as valid *)
_is_valid_position_always(w, position) == TRUE

_is_valid_position(w, position) == is_valid_coordinate(w, position)

(* Variant: every tile counts as passable *)
_is_passable_always(w, position) == TRUE

_is_passable(w, position) == is_passable(get_tile(w, position))

_can_move_vertically(w, from_pos, to_pos) ==
    IF ~is_passable(get_tile(w, to_pos)) THEN FALSE ELSE TRUE

(* Variant: the step east is two cells long *)
HorizontalMovesWithJump ==
    << <<-1, 0>>, <<2, 0>>, <<0, -1>>, <<0, 1>>,
       <<-1, -1>>, <<-1, 1>>, <<1, -1>>, <<1, 1>> >>

HorizontalMoves ==
    << <<-1, 0>>, <<1, 0>>, <<0, -1>>, <<0, 1>>,
       <<-1, -1>>, <<-1, 1>>, <<1, -1>>, <<1, 1>> >>

_get_neighbors(w, position) ==
    LET x == position[1]
        y == position[2]
        z == position[3]
        moved == [i \in 1..Len(HorizontalMoves) |->
                    <<x + HorizontalMoves[i][1], y + HorizontalMoves[i][2], z>>]
        Valid(p) == _is_valid_position(w, p)
        horizontal == SelectSeq(moved, Valid)
        up_pos == <<x, y, z + 1>>
        down_pos == <<x, y, z - 1>>
        up == IF z < w.z_levels - 1 /\ _can_move_vertically(w, position, up_pos)
              THEN <<up_pos>> ELSE <<>>
        down == IF z > 0 /\ _can_move_vertically(w, position, down_pos)
                THEN <<down_pos>> ELSE <<>>
    IN  horizontal \o up \o down

(* Variant: no factor for the direction of the move *)
_get_movement_cost_unscaled(w, from_pos, to_pos) ==
    get_movement_cost(get_tile(w, to_pos))

_get_movement_cost(w, from_pos, to_pos) ==
    LET to_tile == get_tile(w, to_pos)
        cost == get_movement_cost(to_tile)
        dx == Abs(to_pos[1] - from_pos[1])
        dy == Abs(to_pos[2] - from_pos[2])
        dz == Abs(to_pos[3] - from_pos[3])
        entry == DiagonalCostTable[TileCostIndex(to_tile)]
        horizontal == IF dx + dy > 1 /\ cost # Inf
                      THEN Float(entry[1], entry[2])
                      ELSE cost
    IN  IF dz > 0 THEN FloatTwice(horizontal) ELSE horizontal

_heuristic(pos1, pos2) ==
    LET dx == Abs(pos1[1] - pos2[1])
        dy == Abs(pos1[2] - pos2[2])
        dz == Abs(pos1[3] - pos2[3])
        entry == SqrtTable[dx * dx + dy * dy + dz * dz + 1]
    IN  Float(entry[1], entry[2])

(* Queries the pathfinder makes of the world in _get_neighbors: one
   is_valid_coordinate per horizontal move, two get_tile per vertical test *)
NeighborQueries(w, position) ==
    Len(HorizontalMoves)
    + (IF position[3] < w.z_levels - 1 THEN 2 ELSE 0)
    + (IF position[3] > 0 THEN 2 ELSE 0)

----------------------------------------------------------------------------
(* PathNode and the heapq open set.  A heap entry is a node's position; the
   node itself (the object the heap refers to) lives in node_map, so an
   in-place change of g_cost/f_cost is seen by later comparisons and moves
   nothing in the array.  Python indexes from 0, sequences from 1. *)

PathNode(g_cost, h_cost, parent) ==
    [g_cost |-> g_cost, h_cost |-> h_cost,
     f_cost |-> FloatAdd(g_cost, h_cost), parent |-> parent]

Lt(nm, a, b) == FloatLt(nm[a].f_cost, nm[b].f_cost)

RECURSIVE _siftdown(_, _, _, _, _)
_siftdown(heap, startpos, pos, newitem, nm) ==
    IF pos > startpos
    THEN LET parentpos == (pos - 1) \div 2
             parent == heap[parentpos + 1]
         IN  IF Lt(nm, newitem, parent)
             THEN _siftdown([heap EXCEPT ![pos + 1] = parent], startpos,
                            parentpos, newitem, nm)
             ELSE [heap EXCEPT ![pos + 1] = newitem]
    ELSE [heap EXCEPT ![pos + 1] = newitem]

heappush(heap, item, nm) ==
    _siftdown(Append(heap, item), 0, Len(heap), item, nm)

RECURSIVE _siftup(_, _, _, _)
_siftup(heap, pos, newitem, nm) ==
    \* the leaf-ward pass of heapq._siftup, then the _siftdown from that leaf
    LET endpos == Len(heap)
        leftpos == 2 * pos + 1
        rightpos == leftpos + 1
        childpos == IF rightpos < endpos
                       /\ ~Lt(nm, heap[leftpos + 1], heap[rightpos + 1])
                    THEN rightpos ELSE leftpos
    IN  IF leftpos < endpos
        THEN _siftup([heap EXCEPT ![pos + 1] = heap[childpos + 1]], childpos,
                     newitem, nm)
        ELSE _siftdown([heap EXCEPT ![pos + 1] = newitem], 0, pos, newitem, nm)

heappop(heap, nm) ==
    LET lastelt == heap[Len(heap)]
        rest == SubSeq(heap, 1, Len(heap) - 1)
    IN  IF rest # <<>>
        THEN [item |-> rest[1], heap |-> _siftup(rest, 0, lastelt, nm)]
        ELSE [item |-> lastelt, heap |-> rest]

----------------------------------------------------------------------------
(* ai/pathfinding_simple.py: cache and path reconstruction *)

CacheKeys(cache) == {cache[i].key : i \in 1..Len(cache)}

(* Variant: the lookup ignores the key *)
CacheGetFirst(cache, key) == cache[1].path

CacheGet(cache, key) ==
    cache[CHOOSE i \in 1..Len(cache) : cache[i].key = key].path

RECURSIVE WalkParents(_, _, _)
WalkParents(nm, position, fuel) ==
    \* positions from a node back to the start node, following parent links
    IF position = None \/ fuel = 0 THEN <<>>
    ELSE <<position>> \o WalkParents(nm, nm[position].parent, fuel - 1)

Reverse(seq) == [i \in 1..Len(seq) |-> seq[Len(seq) + 1 - i]]

(* Variant: the walk from the goal is not reversed *)
_reconstruct_path_unreversed(nm, goal_position) ==
    WalkParents(nm, goal_position, Cardinality(DOMAIN nm) + 1)

(* Variant: the walk stops before the node without a parent *)
_reconstruct_path_without_start(nm, goal_position) ==
    Tail(Reverse(WalkParents(nm, goal_position, Cardinality(DOMAIN nm) + 1)))

_reconstruct_path(nm, goal_position) ==
    Reverse(WalkParents(nm, goal_position, Cardinality(DOMAIN nm) + 1))

(* Variant: nothing is evicted *)
_cache_path_unbounded(cache, max_size, cache_key, path) ==
    LET entry == [key |-> cache_key, path |-> path]
    IN  IF cache_key \in CacheKeys(cache)
        THEN [i \in 1..Len(cache) |->
                IF cache[i].key = cache_key THEN entry ELSE cache[i]]
        ELSE Append(cache, entry)

(* Variant: a full cache gives up its newest entry *)
_cache_path_evict_newest(cache, max_size, cache_key, path) ==
    LET kept == IF Len(cache) >= max_size
                THEN SubSeq(cache, 1, Len(cache) - 1) ELSE cache
    IN  Append(kept, [key |-> cache_key, path |-> path])

_cache_path(cache, max_size, cache_key, path) ==
    LET kept == IF Len(cache) >= max_size THEN Tail(cache) ELSE cache
        entry == [key |-> cache_key, path |-> path]
    IN  IF cache_key \in CacheKeys(kept)
        THEN [i \in 1..Len(kept) |->
                IF kept[i].key = cache_key THEN entry ELSE kept[i]]
        ELSE Append(kept, entry)

get_cache_size(cache) == Len(cache)

----------------------------------------------------------------------------
(* find_path, lines 77-101: the neighbours of the popped node, in order *)

(* Variant: a lowered node keeps the parent it had *)
VisitNeighborKeepParent(w, g, closed, current, neighbor_pos, st) ==
    IF neighbor_pos \in closed THEN st
    ELSE IF ~_is_passable(w, neighbor_pos)
    THEN [st EXCEPT !.queries = @ + 1]
    ELSE
      LET tentative_g_cost ==
              FloatAdd(st.node_map[current].g_cost,
                       _get_movement_cost(w, current, neighbor_pos))
          known == neighbor_pos \in DOMAIN st.node_map
          node == IF known
                  THEN PathNode(tentative_g_cost,
                                st.node_map[neighbor_pos].h_cost,
                                st.node_map[neighbor_pos].parent)
                  ELSE PathNode(tentative_g_cost,
                                _heuristic(neighbor_pos, g), current)
          nm == [p \in DOMAIN st.node_map \cup {neighbor_pos} |->
                   IF p = neighbor_pos THEN node ELSE st.node_map[p]]
      IN  IF known
          THEN IF FloatLt(tentative_g_cost, st.node_map[neighbor_pos].g_cost)
               THEN [st EXCEPT !.node_map = nm, !.queries = @ + 3]
               ELSE [st EXCEPT !.queries = @ + 3]
          ELSE [open_set |-> heappush(st.open_set, neighbor_pos, nm),
                node_map |-> nm,
                queries |-> st.queries + 3]

(* Variant: a node whose cost is lowered is pushed again *)
VisitNeighborRepush(w, g, closed, current, neighbor_pos, st) ==
    IF neighbor_pos \in closed THEN st
    ELSE IF ~_is_passable(w, neighbor_pos)
    THEN [st EXCEPT !.queries = @ + 1]
    ELSE
      LET tentative_g_cost ==
              FloatAdd(st.node_map[current].g_cost,
                       _get_movement_cost(w, current, neighbor_pos))
          known == neighbor_pos \in DOMAIN st.node_map
          h_cost == IF known THEN st.node_map[neighbor_pos].h_cost
                    ELSE _heuristic(neighbor_pos, g)
          nm == [p \in DOMAIN st.node_map \cup {neighbor_pos} |->
                   IF p = neighbor_pos
                   THEN PathNode(tentative_g_cost, h_cost, current)
                   ELSE st.node_map[p]]
      IN  IF known /\ ~FloatLt(tentative_g_cost,
                                st.node_map[neighbor_pos].g_cost)
          THEN [st EXCEPT !.queries = @ + 3]
          ELSE [open_set |-> heappush(st.open_set, neighbor_pos, nm),
                node_map |-> nm,
                queries |-> st.queries + 3]

VisitNeighbor(w, g, closed, current, neighbor_pos, st) ==
    \* st = [open_set, node_map, queries]
    IF neighbor_pos \in closed THEN st
    ELSE IF ~_is_passable(w, neighbor_pos)
    THEN [st EXCEPT !.queries = @ + 1]
    ELSE
      LET movement_cost == _get_movement_cost(w, current, neighbor_pos)
          tentative_g_cost == FloatAdd(st.node_map[current].g_cost,
                                       movement_cost)
          asked == st.queries + 3
      IN  IF neighbor_pos \in DOMAIN st.node_map
          THEN IF FloatLt(tentative_g_cost,
                          st.node_map[neighbor_pos].g_cost)
               THEN [st EXCEPT
                       !.node_map[neighbor_pos] =
                           PathNode(tentative_g_cost, @.h_cost, current),
                       !.queries = asked]
               ELSE [st EXCEPT !.queries = asked]
          ELSE
            LET neighbor_node == PathNode(tentative_g_cost,
                                          _heuristic(neighbor_pos, g), current)
                nm == [p \in DOMAIN st.node_map \cup {neighbor_pos} |->
                         IF p = neighbor_pos THEN neighbor_node
                         ELSE st.node_map[p]]
            IN  [open_set |-> heappush(st.open_set, neighbor_pos, nm),
                 node_map |-> nm,
                 queries |-> asked]

RECURSIVE ExploreNeighbors(_, _, _, _, _, _, _)
ExploreNeighbors(w, g, closed, current, neighbors, i, st) ==
    IF i > Len(neighbors) THEN st
    ELSE ExploreNeighbors(w, g, closed, current, neighbors, i + 1,
                          VisitNeighbor(w, g, closed, current, neighbors[i], st))

----------------------------------------------------------------------------
(* find_path *)

NoNodes == [p \in {} |-> PathNode(Zero, Zero, None)]

(* Variant: the loop ignores the iteration cap *)
LoopConditionUncapped(open, count, cap) == open # <<>>

(* Variant: the loop stops one pass before the cap *)
LoopConditionOneShort(open, count, cap) == open # <<>> /\ count + 1 < cap

(* Line 62: the while condition *)
LoopCondition(open, count, cap) == open # <<>> /\ count < cap

(* Variant: a failed call empties the cache *)
ReturnNoneCleared(cache, cache_key) == <<>>

(* Variant: a failed call is remembered under its key *)
ReturnNoneCached(cache, cache_key) ==
    IF cache_key \in CacheKeys(cache) THEN cache
    ELSE Append(cache, [key |-> cache_key, path |-> <<>>])

(* Lines 40, 43 and 104: "return None" leaves the cache as it is *)
ReturnNone(cache, cache_key) == cache

(* A Python list: its items and the identity of the object *)
ListObject(id, items) == [id |-> id, items |-> items]

(* Variant: the same object instead of a copy *)
copy_same_object(list) == list

(* Lines 36 and 204: list.copy() makes a new object with the same items *)
copy(list) == ListObject(list.id + 1, list.items)

(* What the caller holds: the items of its list, and whether that list is
   the very object the cache stores under the key of the call *)
Held(returned, stored) ==
    [items |-> returned.items, shared |-> returned.id = stored.id]

NoHeld == [items |-> <<>>, shared |-> FALSE]

(* Variant: the two endpoints of a key in a fixed order *)
CacheKeyUnordered(s, g) ==
    IF s[1] < g[1] \/ (s[1] = g[1] /\ s[3] <= g[3]) THEN <<s, g>> ELSE <<g, s>>

(* Line 33: cache_key = (start, goal) *)
CacheKey(s, g) == <<s, g>>

(* Terrain queries of lines 39 and 42, with Python's short-circuit "or" *)
ValidationQueries(w, s, g) ==
    IF ~_is_valid_position(w, s) THEN 1
    ELSE IF ~_is_valid_position(w, g) THEN 2
    ELSE IF ~_is_passable(w, s) THEN 3
    ELSE 4

(* Lines 33-58: the call up to the while loop *)
FindPathBegin(s, g) ==
    LET cache_key == CacheKey(s, g)
        w == world_state
        start_node == PathNode(Zero, _heuristic(s, g), None)
        nm == [p \in {s} |-> start_node]
    IN
    /\ pc \in {"idle", "done"}
    /\ UNCHANGED dwarf_vars
    /\ after_mutation' = (/\ pc = "done" /\ start = s /\ goal = g
                          /\ result.found /\ held.items # result.path)
    /\ start' = s
    /\ goal' = g
    /\ cache_before' = path_cache
    /\ repeat' = (pc = "done" /\ start = s /\ goal = g /\ result.found)
    /\ retry' = (start = s /\ goal = g /\ ~result.found)
    /\ prev_result' = IF pc = "done" /\ start = s /\ goal = g THEN result
                      ELSE NoPath
    /\ UNCHANGED <<world_state, untouched, max_iterations, cache_max_size>>
    /\ IF cache_key \in CacheKeys(path_cache)
       THEN /\ LET stored == ListObject(0, CacheGet(path_cache, cache_key))
                    returned == copy(stored)
                IN  /\ result' = Found(returned.items)
                    /\ held' = Held(returned, stored)
            /\ path_cache' = path_cache
            /\ hit' = TRUE
            /\ queries' = 0
            /\ pc' = "done"
            /\ open_set' = <<>>
            /\ closed_set' = {}
            /\ node_map' = NoNodes
            /\ iterations' = 0
       ELSE IF \/ ~_is_valid_position(w, s) \/ ~_is_valid_position(w, g)
               \/ ~_is_passable(w, s) \/ ~_is_passable(w, g)
       THEN /\ result' = NoPath
            /\ held' = NoHeld
            /\ path_cache' = ReturnNone(path_cache, cache_key)
            /\ hit' = FALSE
            /\ queries' = ValidationQueries(w, s, g)
            /\ pc' = "done"
            /\ open_set' = <<>>
            /\ closed_set' = {}
            /\ node_map' = NoNodes
            /\ iterations' = 0
       ELSE /\ result' = NoPath
            /\ held' = NoHeld
            /\ path_cache' = path_cache
            /\ hit' = FALSE
            /\ queries' = 4
            /\ pc' = "loop"
            /\ open_set' = heappush(<<>>, s, nm)
            /\ closed_set' = {}
            /\ node_map' = nm
            /\ iterations' = 0

(* Lines 62-104: one test of the while condition and, if it holds, one pass
   through the loop body; line 104 if it does not *)
FindPathStep ==
    /\ pc = "loop"
    /\ UNCHANGED dwarf_vars
    /\ UNCHANGED <<world_state, untouched, max_iterations, cache_max_size, start, goal,
                   hit, repeat, retry, prev_result, cache_before,
                   after_mutation>>
    /\ IF LoopCondition(open_set, iterations, max_iterations)
       THEN
         LET popped == heappop(open_set, node_map)
             current == popped.item
             closed == closed_set \cup {current}
         IN
         /\ iterations' = iterations + 1
         /\ IF current \in closed_set
            THEN /\ open_set' = popped.heap
                 /\ UNCHANGED <<closed_set, node_map, queries, result, pc,
                                path_cache, held>>
            ELSE IF current = goal
            THEN LET path == ListObject(0, _reconstruct_path(node_map, current))
                     stored == copy(path)
                 IN  /\ path_cache' = _cache_path(path_cache, cache_max_size,
                                                  CacheKey(start, goal),
                                                  stored.items)
                     /\ result' = Found(path.items)
                     /\ held' = Held(path, stored)
                     /\ pc' = "done"
                     /\ open_set' = popped.heap
                     /\ closed_set' = closed
                     /\ UNCHANGED <<node_map, queries>>
            ELSE LET st == ExploreNeighbors(
                               world_state, goal, closed, current,
                               _get_neighbors(world_state, current), 1,
                               [open_set |-> popped.heap,
                                node_map |-> node_map,
                                queries |-> queries
                                    + NeighborQueries(world_state, current)])
                 IN  /\ open_set' = st.open_set
                     /\ node_map' = st.node_map
                     /\ queries' = st.queries
                     /\ closed_set' = closed
                     /\ UNCHANGED <<result, pc, path_cache, held>>
       ELSE /\ result' = NoPath
            /\ path_cache' = ReturnNone(path_cache, CacheKey(start, goal))
            /\ pc' = "done"
            /\ UNCHANGED <<search_vars, queries, held>>

----------------------------------------------------------------------------
(* The other operations *)

ForgetSearch ==
    \* the locals and the measurements of a finished call
    /\ open_set' = <<>>
    /\ closed_set' = {}
    /\ node_map' = NoNodes
    /\ iterations' = 0
    /\ queries' = 0
    /\ hit' = FALSE
    /\ repeat' = FALSE
    /\ retry' = FALSE
    /\ prev_result' = NoPath
    /\ cache_before' = <<>>
    /\ held' = NoHeld
    /\ after_mutation' = FALSE

Forget ==
    \* no later call is related to the calls made so far
    /\ start' = None
    /\ goal' = None
    /\ result' = NoPath
    /\ ForgetSearch

(* Variant: clearing the cache also resets every tile *)
clear_cache_and_tiles ==
    /\ pc \in {"idle", "done"}
    /\ UNCHANGED dwarf_vars
    /\ path_cache' = <<>>
    /\ pc' = "idle"
    /\ Forget
    /\ world_state' = WorldState(world_state.size, world_state.z_levels)
    /\ UNCHANGED <<untouched, max_iterations, cache_max_size>>

clear_cache ==
    /\ pc \in {"idle", "done"}
    /\ UNCHANGED dwarf_vars
    /\ path_cache' = <<>>
    /\ pc' = "idle"
    /\ Forget
    /\ UNCHANGED <<world_state, untouched, max_iterations, cache_max_size>>

(* Variant: the new world is bound, the cache is kept *)
reinitialize_keeping_cache(w) ==
    /\ pc \in {"idle", "done"}
    /\ UNCHANGED dwarf_vars
    /\ world_state' = w
    /\ untouched' = TRUE
    /\ path_cache' = path_cache
    /\ pc' = "idle"
    /\ Forget
    /\ UNCHANGED <<max_iterations, cache_max_size>>

reinitialize(w) ==
    /\ pc \in {"idle", "done"}
    /\ UNCHANGED dwarf_vars
    /\ world_state' = w
    /\ untouched' = TRUE
    /\ path_cache' = <<>>
    /\ pc' = "idle"
    /\ Forget
    /\ UNCHANGED <<max_iterations, cache_max_size>>

(* WorldState.set_tile, called by the simulation between two find_path
   calls.  Of the last call only a failure stays on record: which arguments
   found no path. *)
SetTile(pos, tile) ==
    /\ pc \in {"idle", "done"}
    /\ UNCHANGED dwarf_vars
    /\ world_state' = set_tile(world_state, pos, tile)
    /\ world_state' # world_state
    /\ untouched' = FALSE
    /\ pc' = "idle"
    /\ UNCHANGED <<max_iterations, cache_max_size, path_cache>>
    /\ IF result.found
       THEN Forget
       ELSE ForgetSearch /\ UNCHANGED <<start, goal, result>>

----------------------------------------------------------------------------
(* The small world: every operation, on a 3 x 3 x 2 world *)

A == <<0, 0, 0>>
B == <<Size - 1, 0, 0>>
OutOfBounds == <<0, 0, ZLevels>>

Endpoints == {A, B, OutOfBounds}

EditCells ==
    {B, <<Size - 2, 0, 0>>, <<Size - 2, 1, 0>>, <<Size - 1, 1, 0>>,
     <<Size - 1, 0, 1>>}

TileInputs == {DefaultTile, WallTile}

IterationCaps == {1, MidIterations, DEFAULT_MAX_ITERATIONS}

(* The worlds a reload binds: the default world, and one in which the
   straight way from A to B is walled *)
LoadedWorlds ==
    {WorldState(Size, ZLevels),
     set_tile(WorldState(Size, ZLevels), <<Size - 2, 0, 0>>, WallTile)}

InitPathfinder ==
    /\ path_cache = <<>>
    /\ cache_max_size = CacheMax
    /\ pc = "idle"
    /\ start = None
    /\ goal = None
    /\ open_set = <<>>
    /\ closed_set = {}
    /\ node_map = NoNodes
    /\ iterations = 0
    /\ result = NoPath
    /\ queries = 0
    /\ hit = FALSE
    /\ repeat = FALSE
    /\ retry = FALSE
    /\ prev_result = NoPath
    /\ cache_before = <<>>
    /\ held = NoHeld
    /\ after_mutation = FALSE

(* Dwarf(id, position, world_state) at A, and DwarfAI.__init__ *)
InitDwarfAI ==
    /\ dwarf_position = <<0, 0, 0>>
    /\ current_path = <<>>
    /\ path_index = 0
    /\ refused = FALSE
    /\ refused_at = <<0, 0, 0>>

Init ==
    /\ world_state = WorldState(Size, ZLevels)
    /\ untouched = TRUE
    /\ max_iterations \in IterationCaps
    /\ InitPathfinder
    /\ InitDwarfAI

Next ==
    \/ \E s \in Endpoints, g \in Endpoints : FindPathBegin(s, g)
    \/ FindPathStep
    \/ clear_cache
    \/ \E w \in LoadedWorlds : reinitialize(w)
    \/ \E pos \in EditCells, tile \in TileInputs : SetTile(pos, tile)

Spec == Init /\ [][Next]_vars

----------------------------------------------------------------------------
(* The caller's list: the caller of find_path removes the first item of the
   list it was handed (path.pop(0)); a list object that the cache shares
   changes in the cache too *)

SetCached(cache, key, path) ==
    [i \in 1..Len(cache) |->
        IF cache[i].key = key THEN [cache[i] EXCEPT !.path = path]
        ELSE cache[i]]

MutateReturned ==
    /\ pc = "done"
    /\ UNCHANGED dwarf_vars
    /\ result.found
    /\ held.items = result.path
    /\ held' = [held EXCEPT !.items = Tail(@)]
    /\ path_cache' = IF held.shared
                     THEN SetCached(path_cache, CacheKey(start, goal),
                                    Tail(held.items))
                     ELSE path_cache
    /\ UNCHANGED <<world_state, untouched, max_iterations, cache_max_size, pc, start,
                   goal, search_vars, result, queries, hit, repeat, retry,
                   prev_result, cache_before, after_mutation>>

InitCaller ==
    /\ world_state = WorldState(Size, ZLevels)
    /\ untouched = TRUE
    /\ max_iterations = DEFAULT_MAX_ITERATIONS
    /\ InitPathfinder
    /\ InitDwarfAI

NextCaller ==
    \/ \E s \in Endpoints, g \in Endpoints : FindPathBegin(s, g)
    \/ FindPathStep
    \/ MutateReturned
    \/ clear_cache

SpecCaller == InitCaller /\ [][NextCaller]_vars

----------------------------------------------------------------------------
(* Construction: AStarPathfinder(world_state, max_iterations) stores the cap
   it is given, whatever its sign *)

ConstructorCaps == {-1, 0, 1}

InitConstructed ==
    /\ world_state = WorldState(Size, ZLevels)
    /\ untouched = TRUE
    /\ max_iterations \in ConstructorCaps
    /\ InitPathfinder
    /\ InitDwarfAI

NextConstructed ==
    \/ \E s \in Endpoints, g \in Endpoints : FindPathBegin(s, g)
    \/ FindPathStep
    \/ clear_cache
    \/ \E pos \in EditCells, tile \in TileInputs : SetTile(pos, tile)

SpecConstructed == InitConstructed /\ [][NextConstructed]_vars

----------------------------------------------------------------------------
(* Non-uniform terrain: cold-cache searches from one corner of a
   TerrainSize x TerrainSize x ZLevels world, five cells of which are dry
   (cost 1.0), under water of level 6 (cost 4.0) or soil (cost 1.2) *)

WaterTile == Tile(TILE_EMPTY, 6)

SoilTile == Tile(TILE_SOIL, 0)

TerrainTiles == {DefaultTile, WaterTile, SoilTile}

TerrainEditCells ==
    {<<1, 0, 0>>, <<2, 0, 0>>, <<2, 1, 0>>, <<2, 2, 0>>, <<3, 0, 0>>}

TerrainStart == <<0, 0, 0>>

TerrainGoals ==
    {<<TerrainSize - 1, 0, 0>>, <<TerrainSize - 1, TerrainSize - 1, ZLevels - 1>>}

InitTerrain ==
    /\ world_state = WorldState(TerrainSize, ZLevels)
    /\ untouched = TRUE
    /\ max_iterations = DEFAULT_MAX_ITERATIONS
    /\ InitPathfinder
    /\ InitDwarfAI

NextTerrain ==
    \/ \E g \in TerrainGoals :
          path_cache = <<>> /\ FindPathBegin(TerrainStart, g)
    \/ FindPathStep
    \/ clear_cache
    \/ \E pos \in TerrainEditCells, tile \in TerrainTiles :
          path_cache = <<>> /\ SetTile(pos, tile)

SpecTerrain == InitTerrain /\ [][NextTerrain]_vars

----------------------------------------------------------------------------
(* The flat grid: cold-cache searches on a GridSize x GridSize x 1 world
   whose column x = 2 and cell (3, 3, 0) can be walled *)

GridStarts == {<<x, 0, 0>> : x \in 0..(GridSize - 1)}

GridGoals == {<<x, GridSize - 1, 0>> : x \in 0..(GridSize - 1)}

GridEditCells == {<<2, y, 0>> : y \in 0..(GridSize - 1)} \cup {<<3, 3, 0>>}

InitGrid ==
    /\ world_state = WorldState(GridSize, 1)
    /\ untouched = TRUE
    /\ max_iterations = DEFAULT_MAX_ITERATIONS
    /\ InitPathfinder
    /\ InitDwarfAI

NextGrid ==
    \/ \E s \in GridStarts, g \in GridGoals :
          path_cache = <<>> /\ FindPathBegin(s, g)
    \/ FindPathStep
    \/ clear_cache
    \/ \E pos \in GridEditCells, tile \in TileInputs :
          path_cache = <<>> /\ SetTile(pos, tile)

SpecGrid == InitGrid /\ [][NextGrid]_vars

----------------------------------------------------------------------------
(* The step up: find_path(A, AboveA) on the small world, with a warm cache,
   while the cell above A and the two cells of the way around it change *)

AboveA == <<0, 0, 1>>

ShallowTile == Tile(TILE_EMPTY, 4)

VerticalTiles == {DefaultTile, ShallowTile, WaterTile, WallTile}

VerticalEditCells == {AboveA, <<1, 0, 0>>, <<1, 0, 1>>}

VerticalCaps == {1, 2, DEFAULT_MAX_ITERATIONS}

InitVertical ==
    /\ world_state = WorldState(Size, ZLevels)
    /\ untouched = TRUE
    /\ max_iterations \in VerticalCaps
    /\ InitPathfinder
    /\ InitDwarfAI

NextVertical ==
    \/ FindPathBegin(A, AboveA)
    \/ FindPathStep
    \/ clear_cache
    \/ \E pos \in VerticalEditCells, tile \in VerticalTiles : SetTile(pos, tile)

SpecVertical == InitVertical /\ [][NextVertical]_vars

----------------------------------------------------------------------------
(* The budget: find_path(A, Far) on a BudgetSize x BudgetSize x ZLevels
   world, with a warm cache, for every iteration cap up to the number of
   cells, while the six cells around the corner A are walled and opened *)

Far == <<BudgetSize - 1, BudgetSize - 1, ZLevels - 1>>

BudgetEditCells ==
    {<<1, 0, 0>>, <<0, 1, 0>>, <<1, 1, 0>>, <<0, 0, 1>>, <<1, 0, 1>>, <<0, 1, 1>>}

BudgetCaps == 1..Cardinality(Cells(BudgetSize, ZLevels))

InitBudget ==
    /\ world_state = WorldState(BudgetSize, ZLevels)
    /\ untouched = TRUE
    /\ max_iterations \in BudgetCaps
    /\ InitPathfinder
    /\ InitDwarfAI

NextBudget ==
    \/ FindPathBegin(A, Far)
    \/ FindPathStep
    \/ clear_cache
    \/ \E pos \in BudgetEditCells, tile \in TileInputs : SetTile(pos, tile)

SpecBudget == InitBudget /\ [][NextBudget]_vars

----------------------------------------------------------------------------
(* Solid tiles: cold-cache searches on the small world while the material
   of four cells is set to stone, the water level left at 0, as
   test_simple.py does with tile (0, 0, 0) *)

StoneTile == Tile(TILE_STONE, 0)

StoneTiles == {DefaultTile, StoneTile}

StoneEditCells == {A, <<1, 1, 0>>, <<Size - 1, Size - 1, 0>>, AboveA}

StoneGoals == {<<Size - 1, Size - 1, 0>>, AboveA}

InitStone ==
    /\ world_state = WorldState(Size, ZLevels)
    /\ untouched = TRUE
    /\ max_iterations = DEFAULT_MAX_ITERATIONS
    /\ InitPathfinder
    /\ InitDwarfAI

NextStone ==
    \/ \E g \in StoneGoals : path_cache = <<>> /\ FindPathBegin(A, g)
    \/ FindPathStep
    \/ clear_cache
    \/ \E pos \in StoneEditCells, tile \in StoneTiles :
          path_cache = <<>> /\ SetTile(pos, tile)

SpecStone == InitStone /\ [][NextStone]_vars

----------------------------------------------------------------------------
(* find_path as a function *)

RECURSIVE SearchLoop(_, _, _, _, _, _, _)
SearchLoop(w, cap, g, open, closed, nm, count) ==
    \* lines 62-104 run to their return, from the locals given
    IF ~LoopCondition(open, count, cap) THEN NoPath
    ELSE LET popped == heappop(open, nm)
             current == popped.item
             st == ExploreNeighbors(w, g, closed \cup {current}, current,
                                    _get_neighbors(w, current), 1,
                                    [open_set |-> popped.heap, node_map |-> nm,
                                     queries |-> 0])
         IN  IF current \in closed
             THEN SearchLoop(w, cap, g, popped.heap, closed, nm, count + 1)
             ELSE IF current = g THEN Found(_reconstruct_path(nm, current))
             ELSE SearchLoop(w, cap, g, st.open_set, closed \cup {current},
                             st.node_map, count + 1)

(* What find_path returns when it has no cache: lines 38-104 as a function
   of the world, the cap and the arguments *)
find_path_uncached(w, cap, s, g) ==
    IF \/ ~_is_valid_position(w, s) \/ ~_is_valid_position(w, g)
       \/ ~_is_passable(w, s) \/ ~_is_passable(w, g)
    THEN NoPath
    ELSE LET nm == [p \in {s} |-> PathNode(Zero, _heuristic(s, g), None)]
         IN  SearchLoop(w, cap, g, heappush(<<>>, s, nm), {}, nm, 0)

----------------------------------------------------------------------------
(* ai/dwarf_ai.py: one dwarf and its DwarfAI, which shares the pathfinder.
   A move request is DwarfAI._move_to, reached from execute_decision; a
   tick is DwarfAI.update. *)

(* find_path as one call: the cached copy, or the search and its store *)
find_path(cache, w, cap, s, g) ==
    IF CacheKey(s, g) \in CacheKeys(cache)
    THEN Found(copy(ListObject(0, CacheGet(cache, CacheKey(s, g)))).items)
    ELSE find_path_uncached(w, cap, s, g)

_move_to(target_position) ==
    LET cache_key == CacheKey(dwarf_position, target_position)
        path == find_path(path_cache, world_state, max_iterations,
                          dwarf_position, target_position)
    IN
    /\ pc \in {"idle", "done"}
    /\ path_cache' = IF cache_key \notin CacheKeys(path_cache) /\ path.found
                     THEN _cache_path(path_cache, cache_max_size, cache_key,
                                      copy(ListObject(0, path.path)).items)
                     ELSE path_cache
    /\ IF path.found /\ path.path # <<>>
       THEN /\ current_path' = path.path
            /\ path_index' = 0
            /\ refused' = FALSE
            /\ refused_at' = dwarf_position
       ELSE /\ UNCHANGED <<current_path, path_index>>
            /\ refused' = TRUE
            /\ refused_at' = dwarf_position
    /\ pc' = "idle"
    /\ Forget
    /\ UNCHANGED <<world_state, untouched, max_iterations, cache_max_size,
                   dwarf_position>>

(* update and _follow_path; current_path[path_index] counts from 0 *)
update ==
    /\ pc \in {"idle", "done"}
    /\ IF current_path # <<>> /\ path_index < Len(current_path)
       THEN /\ dwarf_position' = current_path[path_index + 1]
            /\ path_index' = path_index + 1
       ELSE UNCHANGED <<dwarf_position, path_index>>
    /\ UNCHANGED <<world_state, untouched, max_iterations, path_cache,
                   cache_max_size, pc, start, goal, search_vars, result,
                   queries, hit, repeat, retry, prev_result, cache_before,
                   held, after_mutation, current_path, refused, refused_at>>

DwarfEditCells == {B, <<Size - 2, 0, 0>>}

InitDwarf ==
    /\ world_state = WorldState(Size, ZLevels)
    /\ untouched = TRUE
    /\ max_iterations = DEFAULT_MAX_ITERATIONS
    /\ InitPathfinder
    /\ InitDwarfAI

NextDwarf ==
    \/ \E target_position \in Endpoints : _move_to(target_position)
    \/ update
    \/ clear_cache
    \/ \E pos \in DwarfEditCells, tile \in TileInputs : SetTile(pos, tile)

SpecDwarf == InitDwarf /\ [][NextDwarf]_vars

----------------------------------------------------------------------------
(* Reference notions the properties are stated with *)

WorldCells(w) == Cells(w.size, w.z_levels)

PassableCells(w) == {c \in WorldCells(w) : is_passable(w.tiles[c])}

(* One step of the 10-connected grid: 8 horizontal moves, up and down *)
Adjacent(c, d) ==
    LET dx == Abs(c[1] - d[1])
        dy == Abs(c[2] - d[2])
        dz == Abs(c[3] - d[3])
    IN  \/ dz = 0 /\ dx <= 1 /\ dy <= 1 /\ dx + dy > 0
        \/ dz = 1 /\ dx = 0 /\ dy = 0

Steps(w, c) == {d \in PassableCells(w) : Adjacent(c, d)}

(* Exact cost of an edge, in micro-units: the tile cost in milli-units times
   1414 for a diagonal move, 1000 otherwise, doubled for a vertical move *)
ExactTileCost(tile) ==
    1000 + 500 * tile.water_level
         + (IF tile.material = TILE_SOIL THEN 200 ELSE 0)

ExactEdgeCost(w, from_pos, to_pos) ==
    LET dx == Abs(to_pos[1] - from_pos[1])
        dy == Abs(to_pos[2] - from_pos[2])
        dz == Abs(to_pos[3] - from_pos[3])
    IN  ExactTileCost(get_tile(w, to_pos))
          * (IF dx + dy > 1 THEN 1414 ELSE 1000)
          * (IF dz > 0 THEN 2 ELSE 1)

RECURSIVE PathCostFrom(_, _, _)
PathCostFrom(w, path, i) ==
    IF i >= Len(path) THEN 0
    ELSE ExactEdgeCost(w, path[i], path[i + 1]) + PathCostFrom(w, path, i + 1)

PathCost(w, path) == PathCostFrom(w, path, 1)

Unreached == 2000 * 1000000

Min(a, b) == IF a < b THEN a ELSE b

RECURSIVE MinOver(_, _, _, _)
MinOver(w, dist, c, from) ==
    \* the least dist[d] + cost(d -> c) over the cells d of the set from
    IF from = {} THEN dist[c]
    ELSE LET d == CHOOSE e \in from : TRUE
             rest == MinOver(w, dist, c, from \ {d})
         IN  IF dist[d] = Unreached THEN rest
             ELSE Min(rest, dist[d] + ExactEdgeCost(w, d, c))

RECURSIVE Relax(_, _)
Relax(w, dist) ==
    \* Bellman-Ford to the fixed point
    LET next == [c \in DOMAIN dist |-> MinOver(w, dist, c, Steps(w, c))]
    IN  IF next = dist THEN dist ELSE Relax(w, next)

(* Least total edge cost from s to g through passable cells; Unreached if none *)
MinCost(w, s, g) ==
    Relax(w, [c \in PassableCells(w) |-> IF c = s THEN 0 ELSE Unreached])[g]

Reachable(w, s, g) ==
    /\ s \in PassableCells(w)
    /\ g \in PassableCells(w)
    /\ MinCost(w, s, g) < Unreached

UniformCost(w) ==
    \A c \in PassableCells(w) : ExactTileCost(w.tiles[c]) = 1000

(* A path of the 10-connected grid through cells passable in w *)
ValidPath(w, path, s, g) ==
    /\ Len(path) >= 1
    /\ path[1] = s
    /\ path[Len(path)] = g
    /\ \A i \in 1..Len(path) : path[i] \in PassableCells(w)
    /\ \A i \in 1..(Len(path) - 1) : Adjacent(path[i], path[i + 1])

Returned == pc = "done"

FreshPath == pc = "done" /\ result.found /\ ~hit

Walls(w) == WorldCells(w) \ PassableCells(w)

----------------------------------------------------------------------------
(* C1: on uniform cost-1 terrain, with an iteration cap that cannot cut the
   search off, the path a search returns costs exactly the least total edge
   cost of any path through passable cells from start to goal. *)
C1_ShortestPath ==
    (/\ FreshPath
     /\ UniformCost(world_state)
     /\ max_iterations >= Cardinality(WorldCells(world_state)))
    => PathCost(world_state, result.path) = MinCost(world_state, start, goal)

(* C2: a returned path, computed or cached, is non-empty, begins with start
   and ends with goal. *)
C2_Endpoints ==
    (Returned /\ result.found)
    => /\ Len(result.path) >= 1
       /\ result.path[1] = start
       /\ result.path[Len(result.path)] = goal

C2_Witness ==
    /\ Returned /\ result.found /\ hit
    /\ Len(result.path) > 2

(* C3, as claimed: no returned path, computed or cached, holds a cell that
   the terrain reports as impassable. *)
C3_NoImpassableCell ==
    (Returned /\ result.found)
    => \A i \in 1..Len(result.path) : result.path[i] \in PassableCells(world_state)

(* C3, amended: no path returned by a search (a cache miss) holds a cell that
   the terrain reports as impassable. *)
C3_FreshNoImpassableCell ==
    FreshPath
    => \A i \in 1..Len(result.path) : result.path[i] \in PassableCells(world_state)

C3_Witness ==
    /\ FreshPath
    /\ Len(result.path) > 2
    /\ \E c \in Walls(world_state) :
          Adjacent(c, result.path[1]) /\ Adjacent(c, result.path[Len(result.path)])

(* C4: the cache never holds more than cache_max_size entries. *)
C4_CacheBound == get_cache_size(path_cache) <= cache_max_size

C4_Witness ==
    /\ FreshPath
    /\ Len(cache_before) = cache_max_size
    /\ Len(path_cache) = cache_max_size
    /\ <<start, goal>> \notin CacheKeys(cache_before)

(* C5: a call that at once repeats a call that returned a path returns the
   same sequence, from the cache, without a single terrain query. *)
C5_RepeatFromCache ==
    (Returned /\ repeat)
    => /\ hit
       /\ queries = 0
       /\ result = prev_result

C5_Witness ==
    /\ Returned /\ repeat /\ hit
    /\ Len(result.path) > 2
    /\ ~(<<start, goal>> \in CacheKeys(cache_before) /\ Len(cache_before) = 0)

(* C6: a call that returns no-path leaves the cache exactly as the call
   found it, whether the cause is a rejected endpoint, an exhausted open set
   or the iteration cap. *)
C6_FailureKeepsCache ==
    (Returned /\ ~result.found) => path_cache = cache_before

C6_Witness ==
    /\ Returned /\ ~result.found
    /\ iterations = max_iterations
    /\ open_set # <<>>
    /\ path_cache # <<>>

(* C7: when find_path(A, B) returned no-path and the very next call with the
   same arguments finds a passable route in the terrain, that call, with no
   clear_cache in between, returns a valid path from A to B; it may fail
   only by hitting an iteration cap smaller than the number of passable
   cells. *)
C7_RetryAfterFailure ==
    (Returned /\ retry /\ Reachable(world_state, start, goal))
    => IF result.found
       THEN ~hit /\ ValidPath(world_state, result.path, start, goal)
       ELSE /\ iterations = max_iterations
            /\ max_iterations < Cardinality(PassableCells(world_state))

C7_Witness ==
    /\ Returned /\ retry /\ result.found
    /\ path_cache # <<>>
    /\ cache_before # <<>>
    /\ Len(result.path) > 2

PopsWithinCap ==
    /\ iterations <= max_iterations
    /\ (Returned /\ ~hit /\ goal \notin closed_set) => ~result.found
    /\ (Returned /\ result.found) => result.path[Len(result.path)] = goal
    /\ (Returned /\ max_iterations = 1 /\ start # goal) => ~result.found

PopOrReturn ==
    pc = "loop" => (pc' = "done" \/ (pc' = "loop" /\ iterations' = iterations + 1))

(* C8: a call never pops more than max_iterations nodes, and every step of
   the loop either pops one more node or returns, so the call terminates; a
   search that returns without having popped the goal returns no-path, never
   a partial path; with max_iterations = 1 and goal # start the answer is
   no-path. *)
C8_CapRespected == []PopsWithinCap /\ [][PopOrReturn]_vars

C8_Witness ==
    /\ Returned /\ ~result.found
    /\ iterations = max_iterations
    /\ max_iterations = MidIterations
    /\ Reachable(world_state, start, goal)

BadEndpoint ==
    start \notin PassableCells(world_state) \/ goal \notin PassableCells(world_state)

Rejected ==
    /\ pc = "done"
    /\ ~result.found
    /\ iterations = 0
    /\ open_set = <<>>
    /\ node_map = NoNodes
    /\ queries <= 4

(* C9, as claimed: in any state of the pathfinder a call whose start or goal
   is out of bounds or impassable returns no-path at once, without a search. *)
C9_RejectsBadEndpoint == (pc # "idle" /\ BadEndpoint) => Rejected

(* C9, amended: a call whose start or goal is out of bounds or impassable,
   and whose (start, goal) has no cached path, returns no-path at once,
   without a search. *)
C9_RejectsBadEndpointOnMiss == (pc # "idle" /\ ~hit /\ BadEndpoint) => Rejected

C9_Witness ==
    /\ Rejected
    /\ goal \in Walls(world_state)
    /\ start \in PassableCells(world_state)
    /\ path_cache # <<>>

(* C10, as claimed: find_path(p, p) returns [p] when p is in bounds and
   passable, and no-path when p is impassable. *)
C10_SamePoint ==
    (Returned /\ start = goal /\ start \in WorldCells(world_state))
    => IF start \in PassableCells(world_state)
       THEN result = Found(<<start>>)
       ELSE ~result.found

(* C10, amended: find_path(p, p) returns [p] when p is in bounds and
   passable; when p is impassable it returns no-path unless a path for
   (p, p) is still cached. *)
C10_SamePointOnMiss ==
    (Returned /\ start = goal /\ start \in WorldCells(world_state))
    => IF start \in PassableCells(world_state)
       THEN result = Found(<<start>>)
       ELSE (~hit => ~result.found)

C10_Witness ==
    /\ FreshPath
    /\ start = goal
    /\ max_iterations = 1
    /\ iterations = 1

SearchSucceeds == pc = "loop" /\ pc' = "done" /\ result'.found

AnsweredFromCache == pc # "loop" /\ pc' = "done" /\ hit'

NewEntry == [key |-> <<start, goal>>, path |-> result'.path]

EvictsOldest ==
    SearchSucceeds
    => /\ <<start, goal>> \notin CacheKeys(path_cache)
       /\ path_cache' = IF Len(path_cache) >= cache_max_size
                        THEN Append(Tail(path_cache), NewEntry)
                        ELSE Append(path_cache, NewEntry)

InsertionOrderKept ==
    \/ path_cache' = path_cache
    \/ path_cache' = <<>>
    \/ /\ path_cache' # <<>>
       /\ LET kept == SubSeq(path_cache', 1, Len(path_cache') - 1)
          IN  \/ kept = path_cache
              \/ path_cache # <<>> /\ kept = Tail(path_cache)

(* C11: when a search for an uncached key succeeds on a full cache, the one
   entry evicted is the first of the cache, the entries of the cache stand in
   the order of their insertion (the cache only ever changes by losing its
   first entry and gaining one at the end, or by being emptied), the new
   entry is present and the size is again cache_max_size; a call answered
   from the cache leaves the cache, order included, as it was. *)
C11_FifoEviction ==
    [][/\ EvictsOldest
       /\ InsertionOrderKept
       /\ AnsweredFromCache => path_cache' = path_cache]_vars

C11_Witness ==
    /\ FreshPath
    /\ Len(cache_before) = cache_max_size
    /\ cache_before[1].key \notin CacheKeys(path_cache)
    /\ \A i \in 2..Len(cache_before) : path_cache[i - 1] = cache_before[i]
    /\ path_cache[Len(path_cache)] = [key |-> <<start, goal>>, path |-> result.path]

(* C12: the cache is looked up by the exact ordered key: a call is
   answered from the cache only when an entry for (start, goal), in this
   order, was in the cache, and then with that entry's path; a call whose
   own key is absent runs a search, also when the reversed key is present,
   and a successful search stores its path under its own key, next to the
   entry of the reversed key. *)
C12_ExactKey ==
    /\ Cardinality(CacheKeys(path_cache)) = Len(path_cache)
    /\ (Returned /\ hit)
       => /\ <<start, goal>> \in CacheKeys(cache_before)
          /\ result.path = CacheGet(cache_before, <<start, goal>>)
    /\ (pc \in {"loop", "done"} /\ <<start, goal>> \notin CacheKeys(cache_before))
       => ~hit
    /\ FreshPath
       => /\ <<start, goal>> \notin CacheKeys(cache_before)
          /\ path_cache[Len(path_cache)] =
                [key |-> <<start, goal>>, path |-> result.path]
          /\ (<<goal, start>> \in CacheKeys(cache_before)
                 /\ Len(cache_before) < cache_max_size)
             => <<goal, start>> \in CacheKeys(path_cache)

C12_Witness ==
    /\ FreshPath
    /\ start # goal
    /\ <<goal, start>> \in CacheKeys(cache_before)
    /\ <<goal, start>> \in CacheKeys(path_cache)
    /\ <<start, goal>> \in CacheKeys(path_cache)
    /\ CacheGet(path_cache, <<start, goal>>) # CacheGet(path_cache, <<goal, start>>)

EntriesKept ==
    \A i \in 1..Len(path_cache) :
        \A j \in 1..Len(path_cache') :
            path_cache'[j].key = path_cache[i].key
            => path_cache'[j].path = path_cache[i].path

(* C13: the list handed to the caller is never the object the cache holds:
   an entry keeps its path for as long as it stays in the cache, whatever
   the caller does to the lists it was handed, and a call that repeats a
   call whose list the caller has changed since is answered from the cache
   with the sequence that call returned. *)
C13_ReturnedListNotShared ==
    /\ [](~held.shared)
    /\ [][EntriesKept]_vars
    /\ []((Returned /\ after_mutation) => (hit /\ result = prev_result))

C13_Witness ==
    /\ Returned /\ after_mutation /\ hit
    /\ Len(result.path) > 2
    /\ held.items = result.path

CacheEmptied ==
    (clear_cache \/ \E w \in LoadedWorlds : reinitialize(w))
    => get_cache_size(path_cache') = 0

(* C14: clear_cache and reinitialize(w) leave a cache of size 0, and
   reinitialize(w) binds w; as long as no tile of the bound world has been
   set since, every path returned, from a search or from the cache, is a
   path through passable cells of the bound world, so none computed against
   the world bound before is returned. *)
C14_ClearAndRebind ==
    /\ [][CacheEmptied]_vars
    /\ [][\A w \in LoadedWorlds : reinitialize(w) => world_state' = w]_vars
    /\ []((Returned /\ result.found /\ untouched)
          => ValidPath(world_state, result.path, start, goal))

C14_Witness ==
    /\ Returned /\ result.found /\ untouched
    /\ Walls(world_state) # {}
    /\ start = A /\ goal = B
    /\ path_cache # <<>>

(* C15: a pathfinder whose iteration cap is not positive does not come
   into being, so find_path never returns from one. *)
C15_NoPathfinderWithoutBudget == Returned => max_iterations >= 1

(* Tile.get_movement_cost() * math.sqrt(2) in binary64, by TileCostIndex *)
Sqrt2CostTable == <<
    <<23726566, 109001677>>, <<35589849, 163502516>>, <<47453132, 218003354>>, <<59316416, 4068736>>,
    <<71179699, 58569576>>, <<83042982, 113070412>>, <<94906265, 167571252>>, <<106769548, 222072092>>,
    <<28471879, 184489103>>, <<40335162, 238989942>>, <<52198446, 25055326>>, <<64061729, 79556164>>,
    <<75925012, 134057004>>, <<87788295, 188557840>>, <<99651578, 243058680>>, <<111514862, 29124064>> >>

(* The cost the claim gives a move: the destination's movement cost, times
   sqrt(2) for a diagonal move, times 2.0 for a move that changes z *)
ClaimedMoveCost(w, from_pos, to_pos) ==
    LET to_tile == get_tile(w, to_pos)
        base == get_movement_cost(to_tile)
        entry == Sqrt2CostTable[TileCostIndex(to_tile)]
    IN  IF Abs(to_pos[1] - from_pos[1]) = 1 /\ Abs(to_pos[2] - from_pos[2]) = 1
        THEN Float(entry[1], entry[2])
        ELSE IF to_pos[3] # from_pos[3] THEN FloatTwice(base)
        ELSE base

(* C16: for every move from a passable cell to an adjacent passable cell,
   _get_movement_cost is the destination's movement cost, times sqrt(2) if
   the move is diagonal, times 2.0 if it changes z, and unmultiplied if it
   is orthogonal. *)
C16_MoveCost ==
    \A c \in PassableCells(world_state) :
        \A d \in Steps(world_state, c) :
            _get_movement_cost(world_state, c, d)
                = ClaimedMoveCost(world_state, c, d)

FloatMin(x, y) == IF FloatLt(y, x) THEN y ELSE x

RECURSIVE LeastOver(_, _, _, _)
LeastOver(w, dist, c, to) ==
    \* the least _get_movement_cost(c -> d) + dist[d] over the cells d of to
    IF to = {} THEN dist[c]
    ELSE LET d == CHOOSE e \in to : TRUE
         IN  FloatMin(LeastOver(w, dist, c, to \ {d}),
                      FloatAdd(_get_movement_cost(w, c, d), dist[d]))

RECURSIVE RelaxTo(_, _)
RelaxTo(w, dist) ==
    LET next == [c \in DOMAIN dist |-> LeastOver(w, dist, c, Steps(w, c))]
    IN  IF next = dist THEN dist ELSE RelaxTo(w, next)

(* For every passable cell, the least sum of the engine's edge costs over
   the paths from it to g; Inf where there is none *)
LeastCostTo(w, g) ==
    RelaxTo(w, [c \in PassableCells(w) |-> IF c = g THEN Zero ELSE Inf])

(* C17: for the goal of a call and every passable cell c that a path
   connects to it, _heuristic(c, goal) is at most the least total edge cost
   of a path from c to the goal. *)
C17_Admissible ==
    (pc # "idle" /\ goal \in PassableCells(world_state))
    => LET least == LeastCostTo(world_state, goal)
       IN  \A c \in PassableCells(world_state) :
              least[c] # Inf => ~FloatLt(least[c], _heuristic(c, goal))

(* C18: on terrain whose passable cells have differing finite movement
   costs >= 1, a path returned by a search is a least-cost one: no path
   through passable cells from start to goal costs strictly less. *)
C18_LeastCostPath ==
    (FreshPath /\ max_iterations >= Cardinality(WorldCells(world_state)))
    => PathCost(world_state, result.path) <= MinCost(world_state, start, goal)

RECURSIVE EngineCostFrom(_, _, _, _)
EngineCostFrom(w, path, i, sum) ==
    IF i >= Len(path) THEN sum
    ELSE EngineCostFrom(w, path, i + 1,
             FloatAdd(sum, _get_movement_cost(w, path[i], path[i + 1])))

(* The total of the engine's edge costs along a path, added up as
   find_path adds them *)
EngineCost(w, path) == EngineCostFrom(w, path, 1, Zero)

Flat5x5 ==
    /\ world_state.size = 5
    /\ world_state.z_levels = 1
    /\ start = <<0, 0, 0>>
    /\ goal = <<4, 4, 0>>

FourTimesSqrt2 == Float(SqrtTable[33][1], SqrtTable[33][2])

(* C19: on the flat 5x5x1 grid of default tiles, find_path((0,0,0),(4,4,0))
   returns the diagonal (0,0,0),(1,1,0),(2,2,0),(3,3,0),(4,4,0), and the
   total cost of that path is 4 * sqrt(2) = sqrt(32). *)
C19_Diagonal ==
    (Returned /\ Flat5x5 /\ world_state = WorldState(5, 1))
    => /\ result = Found(<<<<0, 0, 0>>, <<1, 1, 0>>, <<2, 2, 0>>, <<3, 3, 0>>,
                          <<4, 4, 0>>>>)
       /\ EngineCost(world_state, result.path) = FourTimesSqrt2

(* Column x = 2 wholly impassable, every other cell the default tile *)
ColumnWalled(w) ==
    \A c \in WorldCells(w) :
        IF c[1] = 2 THEN c \in Walls(w) ELSE w.tiles[c] = DefaultTile

(* C20 as stated: on the flat 5x5x1 grid with all of column x = 2
   impassable, find_path((0,0,0),(4,4,0)) returns a path around x = 2 with
   more than 5 elements and a total cost above 4 * sqrt(2). *)
C20_Detour ==
    (Returned /\ Flat5x5 /\ ColumnWalled(world_state))
    => /\ result.found
       /\ Len(result.path) > 5
       /\ \A i \in 1..Len(result.path) : result.path[i][1] # 2
       /\ FloatLt(FourTimesSqrt2, EngineCost(world_state, result.path))

(* C20, amended: with all of column x = 2 impassable on a one-level grid,
   a search from a start left of the column to a goal right of it that is
   not answered from the cache returns no-path. *)
C20_WalledColumnNoPath ==
    (/\ Returned
     /\ ~hit
     /\ world_state.z_levels = 1
     /\ \A c \in WorldCells(world_state) : c[1] = 2 => c \in Walls(world_state)
     /\ start[1] < 2
     /\ goal[1] > 2)
    => ~result.found

C20_Witness ==
    /\ Returned
    /\ ~hit
    /\ Flat5x5
    /\ ColumnWalled(world_state)
    /\ ~result.found
    /\ iterations < max_iterations
    /\ closed_set = {c \in WorldCells(world_state) : c[1] < 2}

Three == Float(3 * OneHi, 0)

StepUp ==
    /\ Returned
    /\ world_state.z_levels = 2
    /\ start = A
    /\ goal = AboveA
    /\ A \in PassableCells(world_state)
    /\ AboveA \in PassableCells(world_state)

(* The destination's movement cost times 2.0 *)
TwiceDestinationCost ==
    LET cost == get_movement_cost(get_tile(world_state, AboveA))
    IN  FloatAdd(cost, cost)

(* C21 as stated: on a two-level grid where (0,0,0) and (0,0,1) are both
   passable, find_path((0,0,0),(0,0,1)) returns exactly the path
   (0,0,0),(0,0,1), whose cost is the destination's movement cost times
   2.0. *)
C21_StepUp ==
    StepUp
    => /\ result = Found(<<A, AboveA>>)
       /\ EngineCost(world_state, result.path) = TwiceDestinationCost

(* C21, amended: the same call, when it is not answered from the cache,
   the iteration cap is at least the number of cells and the destination's
   movement cost is at most 3.0, returns exactly the path (0,0,0),(0,0,1),
   and the goal's g_cost and the sum of the edge costs of the path are the
   destination's movement cost times 2.0. *)
C21_StepUpDirect ==
    (/\ StepUp
     /\ ~hit
     /\ max_iterations >= Cardinality(WorldCells(world_state))
     /\ ~FloatLt(Three, get_movement_cost(get_tile(world_state, AboveA))))
    => /\ result = Found(<<A, AboveA>>)
       /\ node_map[goal].g_cost = TwiceDestinationCost
       /\ EngineCost(world_state, result.path) = TwiceDestinationCost

C21_Witness ==
    /\ StepUp
    /\ ~hit
    /\ max_iterations >= Cardinality(WorldCells(world_state))
    /\ get_tile(world_state, AboveA) = ShallowTile
    /\ result = Found(<<A, AboveA>>)
    /\ iterations > 2

(* A step inside find_path: the call begins, runs its loop or returns *)
FindPathStepTaken == pc' \in {"loop", "done"}

TerrainAndSettingsKept ==
    /\ world_state'.tiles = world_state.tiles
    /\ world_state'.size = world_state.size
    /\ world_state'.z_levels = world_state.z_levels
    /\ max_iterations' = max_iterations
    /\ cache_max_size' = cache_max_size

(* C22: the pathfinder treats terrain as read-only: no step of find_path
   and no clear_cache changes a tile or the extents of the world, and
   find_path leaves the bound world_state, max_iterations and
   cache_max_size as they were; get_cache_size is a function of the cache
   alone. *)
C22_TerrainReadOnly ==
    /\ [][(FindPathStepTaken \/ clear_cache) => TerrainAndSettingsKept]_vars
    /\ [](get_cache_size(path_cache) = Len(path_cache))

C22_Witness ==
    /\ FreshPath
    /\ Walls(world_state) # {}
    /\ Len(result.path) > 2
    /\ path_cache # <<>>
    /\ iterations > 2

(* The next step of the search pops a node *)
AboutToPop == pc = "loop" /\ LoopCondition(open_set, iterations, max_iterations)

(* C23: at every pop of a search, the node taken from the open set has an
   f_cost less than or equal to the f_cost of every other node in the open
   set, also of the nodes whose g_cost and f_cost were lowered in place
   after they were pushed. *)
C23_PopsMinimum ==
    AboutToPop
    => LET current == heappop(open_set, node_map).item
       IN  \A i \in 1..Len(open_set) :
              ~FloatLt(node_map[open_set[i]].f_cost, node_map[current].f_cost)

OpenCells == {open_set[i] : i \in 1..Len(open_set)}

(* C24: within one search each coordinate is pushed onto the open set at
   most once and expanded at most once: the open set never holds two
   entries for one coordinate, no entry of it is in the closed set (so the
   node popped next is not, and the skip of line 67 is never taken: every
   pass of the loop closes a new coordinate), and the discovered
   coordinates are exactly the open and the closed ones. *)
C24_PushedOnce ==
    /\ Cardinality(OpenCells) = Len(open_set)
    /\ OpenCells \cap closed_set = {}
    /\ OpenCells \cup closed_set = DOMAIN node_map
    /\ iterations = Cardinality(closed_set)

C24_Witness ==
    /\ AboutToPop
    /\ Len(open_set) > 2
    /\ \E i \in 1..Len(open_set) :
          FloatLt(node_map[open_set[i]].f_cost,
                  node_map[heappop(open_set, node_map).item].f_cost)

(* The parent links from a discovered node, as _reconstruct_path walks them *)
ParentChain(p) == WalkParents(node_map, p, Cardinality(DOMAIN node_map) + 1)

ParentsClosed ==
    \A p \in DOMAIN node_map :
        LET node == node_map[p]
        IN  /\ node.f_cost = FloatAdd(node.g_cost, node.h_cost)
            /\ IF p = start
               THEN node.parent = None /\ node.g_cost = Zero
               ELSE /\ node.parent \in closed_set
                    /\ node.g_cost =
                          FloatAdd(node_map[node.parent].g_cost,
                                   _get_movement_cost(world_state, node.parent, p))
            /\ Len(ParentChain(p)) <= Cardinality(DOMAIN node_map)
            /\ ParentChain(p)[Len(ParentChain(p))] = start

ClosedNodesKept ==
    pc = "loop"
    => \A p \in closed_set : p \in DOMAIN node_map' /\ node_map'[p] = node_map[p]

(* C25: throughout a search every discovered node other than the start
   has a parent that is in the closed set, and its g_cost is its parent's
   g_cost plus the cost of the edge from the parent to it; a node in the
   closed set is never changed again; so the parent links have no cycle and
   the walk of _reconstruct_path from any discovered node ends at the
   start node. *)
C25_ParentLinks == []ParentsClosed /\ [][ClosedNodesKept]_vars

C25_Witness ==
    /\ pc = "loop"
    /\ Len(open_set) > 1
    /\ \E i \in 2..Len(open_set) :
          /\ FloatLt(node_map[open_set[i]].f_cost, node_map[open_set[1]].f_cost)
          /\ Len(ParentChain(open_set[i])) >= 3

(* C26: every path returned by a fresh search is well-formed: all its
   coordinates are in bounds, none appears twice, and each consecutive pair
   is one step of the 10-connected grid (dz = 0 with max(|dx|,|dy|) = 1, or
   dx = dy = 0 with |dz| = 1). *)
C26_WellFormedPath ==
    FreshPath
    => /\ \A i \in 1..Len(result.path) :
             is_valid_coordinate(world_state, result.path[i])
       /\ \A i \in 1..Len(result.path) : \A j \in 1..Len(result.path) :
             result.path[i] = result.path[j] => i = j
       /\ \A i \in 1..(Len(result.path) - 1) :
             Adjacent(result.path[i], result.path[i + 1])

C26_Witness ==
    /\ FreshPath
    /\ Len(result.path) >= 5
    /\ \E i \in 1..(Len(result.path) - 1) :
          result.path[i][3] # result.path[i + 1][3]
    /\ \E i \in 1..(Len(result.path) - 1) :
          /\ result.path[i][1] # result.path[i + 1][1]
          /\ result.path[i][2] # result.path[i + 1][2]

SufficientBudget ==
    /\ Returned
    /\ start \in PassableCells(world_state)
    /\ goal \in PassableCells(world_state)
    /\ max_iterations >= Cardinality(PassableCells(world_state))

(* C27 as stated: if start and goal are valid and passable and
   max_iterations is at least the number of in-bounds passable cells, then
   find_path returns a path when the goal is reachable from the start
   through passable cells, and when it is not, ends with no-path, the open
   set exhausted. *)
C27_Complete ==
    SufficientBudget
    => IF Reachable(world_state, start, goal)
       THEN result.found
       ELSE ~result.found /\ open_set = <<>>

(* C27, amended: the same, for a call that is not answered from the cache;
   a call answered from the cache returns the cached path, reachable goal
   or not. *)
C27_CompleteOnMiss ==
    /\ (SufficientBudget /\ ~hit)
       => IF Reachable(world_state, start, goal)
          THEN result.found
          ELSE ~result.found /\ open_set = <<>>
    /\ (Returned /\ hit) => result.found

C27_Witness ==
    /\ FreshPath
    /\ SufficientBudget
    /\ max_iterations = Cardinality(PassableCells(world_state))
    /\ iterations = max_iterations
    /\ Len(result.path) = 3

(* C28: on terrain that has not changed since it was bound, every
   find_path call, answered from the cache or not, after any earlier calls,
   evictions and clear_cache calls, returns exactly what a pathfinder
   without a cache returns for the same arguments. *)
C28_CacheTransparent ==
    (Returned /\ untouched)
    => result = find_path_uncached(world_state, max_iterations, start, goal)

C28_Witness ==
    /\ Returned /\ untouched /\ hit
    /\ Walls(world_state) # {}
    /\ Len(result.path) >= 3
    /\ Len(path_cache) = cache_max_size
    /\ path_cache[1].key # <<start, goal>>

(* Tile.is_solid restricted to stone: the material of the tile is stone *)
Stone(w, c) == get_tile(w, c).material = TILE_STONE

(* C29: a solid tile (material stone) is not traversable by the
   pathfinder: find_path returns no-path when the start or the goal tile is
   stone, _get_neighbors generates no vertical move into a stone tile, and
   no returned path contains a stone tile. *)
C29_StoneNotTraversable ==
    /\ (Returned /\ (Stone(world_state, start) \/ Stone(world_state, goal)))
       => ~result.found
    /\ \A c \in WorldCells(world_state) :
          LET neighbors == _get_neighbors(world_state, c)
          IN  \A i \in 1..Len(neighbors) :
                 neighbors[i][3] # c[3] => ~Stone(world_state, neighbors[i])
    /\ (Returned /\ result.found)
       => \A i \in 1..Len(result.path) : ~Stone(world_state, result.path[i])

(* C30: when a dwarf's move request gets no path from find_path, the
   dwarf does not move: on the update ticks that follow, its position stays
   what it was at the request, until a later move request obtains a path,
   also when an earlier path was only partly followed. *)
C30_RefusedDwarfStays == refused => dwarf_position = refused_at

====
